---- MODULE Spec2Model ----
(***************************************************************************)
(* Model of roomeventdocs/agent-listener-example.py: the data_received     *)
(* callback on_data_received, which decodes a packet as UTF-8, parses it   *)
(* with json.loads, reads payload.get("message") and, when the value is    *)
(* truthy, logs it, interrupts the session and asks for a reply.           *)
(*                                                                         *)
(* A packet is a sequence of units.  A unit is either the bytes of one     *)
(* ASCII JSON token, written as the token's text, or one raw non-ASCII     *)
(* byte.  After decoding, a text is a sequence of JSON tokens and          *)
(* non-ASCII characters.                                                   *)
(***************************************************************************)
EXTENDS Integers, Sequences, FiniteSets, TLC

(***************************************************************************)
(* Bounds                                                                  *)
(***************************************************************************)
\* longest packet of the exhaustive packet set
MaxLen == 5
\* number of callback invocations the dispatcher makes in SpecSeq / SpecConc
MaxInvocations == 2

(***************************************************************************)
(* Packets                                                                 *)
(***************************************************************************)
StringContent ==
    ("\"message\"" :> "message") @@ ("\"hi\"" :> "hi") @@ ("\"\"" :> "") @@
    ("\"k\"" :> "k")
StringTokens == DOMAIN StringContent
IntContent == ("0" :> 0) @@ ("1" :> 1)
IntTokens == DOMAIN IntContent
\* constants json.loads accepts although they are not JSON (RFC 8259)
FloatContent == ("NaN" :> "nan") @@ ("Infinity" :> "inf") @@ ("-Infinity" :> "-inf")
NonStandardConstants == DOMAIN FloatContent
\* a non-ASCII character (U+00E9), the decoding of the bytes C3 A9
EAcute == "e-acute"

\* the units the exhaustive packet set is built from
Alphabet == {"{", "}", ":", "\"message\"", "\"hi\"", "\"\"", "NaN", "0xFF"}

\* the packets of n units over Alphabet
PacketsOfLen(n) == [1..n -> Alphabet]

\* packets with the tokens, nesting and lengths the packets over Alphabet do not reach
SamplePackets ==
    { <<"{", "\"message\"", ":", "\"hi\"", "}">>,
      <<"{", "\"message\"", ":", "\"k\"", "}">>,
      <<"{", "\"message\"", ":", "\"\"", "}">>,
      <<"{", "\"message\"", ":", "null", "}">>,
      <<"{", "\"message\"", ":", "1", "}">>,
      <<"{", "\"message\"", ":", "[", "0", ",", "true", "]", "}">>,
      <<"{", "\"message\"", ":", "{", "\"k\"", ":", "false", "}", "}">>,
      <<"{", "\"message\"", ":", "\"hi\"", ",", "\"message\"", ":", "\"\"", "}">>,
      <<"{", "\"k\"", ":", "\"hi\"", ",", "\"message\"", ":", "\"hi\"", "}">>,
      <<"{", "\"message\"", ":", "Infinity", "}">>,
      <<"{", "\"k\"", ":", "0", "}">>,
      <<"{", "}">>,
      <<"[", "\"message\"", "]">>,
      <<"\"message\"">>,
      <<"{", "\"message\"", ":", "\"hi\"", ",", "}">>,
      <<"{", "\"message\"", "\"hi\"", "}">>,
      <<"[", "0", ",", "]">>,
      <<"{", "\"message\"", ":", "\"hi\"", "}", "0xFF">>,
      <<"{", "\"message\"", ":", "\"hi\"", "}", "0xC3">>,
      <<"{", "\"message\"", ":", "\"hi\"", "}", "0xA9">>,
      <<"{", "\"message\"", ":", "\"hi\"", "}", "0xC3", "0xA9">>,
      <<>> }

\* the packets delivered concurrently
ConcurrentPackets ==
    { <<"{", "\"message\"", ":", "\"hi\"", "}">>,
      <<"{", "\"message\"", ":", "\"\"", "}">>,
      <<"[", "\"message\"", "]">> }

(***************************************************************************)
(* Exceptions.  Each class is listed with its base classes.                *)
(***************************************************************************)
Bases ==
    ("UnicodeDecodeError" :> {"UnicodeDecodeError", "ValueError", "Exception"}) @@
    ("JSONDecodeError" :> {"JSONDecodeError", "ValueError", "Exception"}) @@
    ("AttributeError" :> {"AttributeError", "Exception"}) @@
    ("RuntimeError" :> {"RuntimeError", "Exception"})

NoException == "none"

(***************************************************************************)
(* bytes.decode("utf-8")                                                   *)
(***************************************************************************)
Raise(cls) == [ok |-> FALSE, exc |-> cls]
Return(v) == [ok |-> TRUE, val |-> v]

RECURSIVE DecodeFrom(_, _, _)
DecodeFrom(data, i, text) ==
    IF i > Len(data) THEN Return(text)
    ELSE IF data[i] = "0xC3"
         THEN IF i < Len(data) /\ data[i + 1] = "0xA9"
              THEN DecodeFrom(data, i + 2, Append(text, EAcute))
              ELSE Raise("UnicodeDecodeError")
    ELSE IF data[i] \in {"0xA9", "0xFF"} THEN Raise("UnicodeDecodeError")
    ELSE DecodeFrom(data, i + 1, Append(text, data[i]))

decode(data) == DecodeFrom(data, 1, <<>>)

(***************************************************************************)
(* Python values                                                           *)
(***************************************************************************)
None == [t |-> "None"]
PyStr(s) == [t |-> "str", s |-> s]
PyInt(n) == [t |-> "int", n |-> n]
PyFloat(f) == [t |-> "float", f |-> f]
PyBool(b) == [t |-> "bool", b |-> b]
PyList(e) == [t |-> "list", e |-> e]
\* a dict is the sequence of its <<key, value>> items in insertion order
PyDict(items) == [t |-> "dict", items |-> items]

DictSetItem(items, k, v) ==
    IF \E j \in 1..Len(items) : items[j][1] = k
    THEN [j \in 1..Len(items) |-> IF items[j][1] = k THEN <<k, v>> ELSE items[j]]
    ELSE Append(items, <<k, v>>)

DictGet(items, k) ==
    IF \E j \in 1..Len(items) : items[j][1] = k
    THEN items[CHOOSE j \in 1..Len(items) : items[j][1] = k][2]
    ELSE None

(***************************************************************************)
(* json.loads                                                              *)
(***************************************************************************)
Parsed(v, end) == [ok |-> TRUE, val |-> v, end |-> end]

RECURSIVE scan_once(_, _)
RECURSIVE JSONObject(_, _, _)
RECURSIVE JSONArray(_, _, _)

\* the value starting at s[idx]; end is the index after it
scan_once(s, idx) ==
    IF idx > Len(s) THEN Raise("JSONDecodeError")
    ELSE LET c == s[idx] IN
         IF c \in StringTokens THEN Parsed(PyStr(StringContent[c]), idx + 1)
         ELSE IF c = "{" THEN
            IF idx + 1 <= Len(s) /\ s[idx + 1] = "}"
            THEN Parsed(PyDict(<<>>), idx + 2)
            ELSE JSONObject(s, idx + 1, <<>>)
         ELSE IF c = "[" THEN
            IF idx + 1 <= Len(s) /\ s[idx + 1] = "]"
            THEN Parsed(PyList(<<>>), idx + 2)
            ELSE JSONArray(s, idx + 1, <<>>)
         ELSE IF c = "null" THEN Parsed(None, idx + 1)
         ELSE IF c = "true" THEN Parsed(PyBool(TRUE), idx + 1)
         ELSE IF c = "false" THEN Parsed(PyBool(FALSE), idx + 1)
         ELSE IF c \in IntTokens THEN Parsed(PyInt(IntContent[c]), idx + 1)
         ELSE IF c \in NonStandardConstants THEN Parsed(PyFloat(FloatContent[c]), idx + 1)
         ELSE Raise("JSONDecodeError")

\* the members of an object from s[idx], which is expected to be a key
JSONObject(s, idx, items) ==
    IF idx > Len(s) \/ s[idx] \notin StringTokens THEN Raise("JSONDecodeError")
    ELSE IF idx + 1 > Len(s) \/ s[idx + 1] # ":" THEN Raise("JSONDecodeError")
    ELSE LET value == scan_once(s, idx + 2) IN
         IF ~value.ok THEN value
         ELSE LET pairs == DictSetItem(items, StringContent[s[idx]], value.val)
                  end == value.end
              IN  IF end > Len(s) THEN Raise("JSONDecodeError")
                  ELSE IF s[end] = "}" THEN Parsed(PyDict(pairs), end + 1)
                  ELSE IF s[end] # "," THEN Raise("JSONDecodeError")
                  ELSE JSONObject(s, end + 1, pairs)

\* the elements of an array from s[idx], which is expected to be a value
JSONArray(s, idx, elems) ==
    LET value == scan_once(s, idx) IN
    IF ~value.ok THEN value
    ELSE LET values == Append(elems, value.val)
             end == value.end
         IN  IF end > Len(s) THEN Raise("JSONDecodeError")
             ELSE IF s[end] = "]" THEN Parsed(PyList(values), end + 1)
             ELSE IF s[end] # "," THEN Raise("JSONDecodeError")
             ELSE JSONArray(s, end + 1, values)

loads(s) ==
    LET r == scan_once(s, 1) IN
    IF ~r.ok THEN r
    ELSE IF r.end # Len(s) + 1 THEN Raise("JSONDecodeError")
    ELSE Return(r.val)

(***************************************************************************)
(* Truth value and str() of a Python value                                 *)
(***************************************************************************)
\* variant: if message is not None:
TruthyNotNone(v) == v.t # "None"

Truthy(v) ==
    CASE v.t = "None" -> FALSE
      [] v.t = "bool" -> v.b
      [] v.t = "int" -> v.n # 0
      [] v.t = "float" -> TRUE
      [] v.t = "str" -> v.s # ""
      [] v.t = "list" -> Len(v.e) > 0
      [] v.t = "dict" -> Len(v.items) > 0

IntText == (0 :> "0") @@ (1 :> "1")

RECURSIVE repr(_)
RECURSIVE JoinRepr(_, _)
RECURSIVE JoinItems(_, _)

JoinRepr(e, j) ==
    IF j > Len(e) THEN ""
    ELSE (IF j > 1 THEN ", " ELSE "") \o repr(e[j]) \o JoinRepr(e, j + 1)

JoinItems(items, j) ==
    IF j > Len(items) THEN ""
    ELSE (IF j > 1 THEN ", " ELSE "") \o "'" \o items[j][1] \o "': "
         \o repr(items[j][2]) \o JoinItems(items, j + 1)

repr(v) ==
    CASE v.t = "None" -> "None"
      [] v.t = "bool" -> IF v.b THEN "True" ELSE "False"
      [] v.t = "int" -> IntText[v.n]
      [] v.t = "float" -> v.f
      [] v.t = "str" -> "'" \o v.s \o "'"
      [] v.t = "list" -> "[" \o JoinRepr(v.e, 1) \o "]"
      [] v.t = "dict" -> "{" \o JoinItems(v.items, 1) \o "}"

str(v) == IF v.t = "str" THEN v.s ELSE repr(v)

(***************************************************************************)
(* on_data_received, one line at a time.  A frame holds the locals of one  *)
(* invocation; each line maps a frame to the next frame and to the calls   *)
(* it makes on the logger and on the session.                              *)
(***************************************************************************)
Unbound == [t |-> "unbound"]

NewFrame(packet) ==
    [pc |-> "L13", data |-> packet, payload |-> Unbound, message |-> Unbound,
     exc |-> NoException]

Call(op, arg, raised) == [op |-> op, arg |-> arg, raised |-> raised]
Step(f, out) == [f |-> f, out |-> out]
Throw(f, cls) == [f EXCEPT !.exc = cls, !.pc = "L20"]

\* variant: an undecodable packet is dropped without a log entry
Line13Silent(f) ==
    LET text == decode(f.data) IN
    IF ~text.ok THEN Step([f EXCEPT !.exc = text.exc, !.pc = "done"], <<>>)
    ELSE LET value == loads(text.val) IN
         IF ~value.ok THEN Step(Throw(f, value.exc), <<>>)
         ELSE Step([f EXCEPT !.payload = value.val, !.pc = "L14"], <<>>)

\* payload = json.loads(data_packet.data.decode("utf-8"))
Line13(f) ==
    LET text == decode(f.data) IN
    IF ~text.ok THEN Step(Throw(f, text.exc), <<>>)
    ELSE LET value == loads(text.val) IN
         IF ~value.ok THEN Step(Throw(f, value.exc), <<>>)
         ELSE Step([f EXCEPT !.payload = value.val, !.pc = "L14"], <<>>)

\* only a dict has the attribute get
HasGet(v) == v.t = "dict"

\* variant: a payload that is not a dict is read as having no message
Line14Guarded(f) ==
    IF ~HasGet(f.payload) THEN Step([f EXCEPT !.message = None, !.pc = "L16"], <<>>)
    ELSE Step([f EXCEPT !.message = DictGet(f.payload.items, "message"), !.pc = "L16"], <<>>)

\* message = payload.get("message")
Line14(f) ==
    IF ~HasGet(f.payload) THEN Step(Throw(f, "AttributeError"), <<>>)
    ELSE Step([f EXCEPT !.message = DictGet(f.payload.items, "message"), !.pc = "L16"], <<>>)

\* if message:
Line16(f) ==
    Step([f EXCEPT !.pc = IF Truthy(f.message) THEN "L17" ELSE "done"], <<>>)

\* logger.info(f"Received external message: {message}")
Line17(f) ==
    Step([f EXCEPT !.pc = "L18"],
         <<Call("logger.info", "Received external message: " \o str(f.message), FALSE)>>)

\* variant: a failure of session.interrupt() is swallowed
Line18Continue(f, outcome) ==
    Step([f EXCEPT !.pc = "L19"], <<Call("session.interrupt", "", outcome = "raises")>>)

\* session.interrupt(), which the session lets return or raise
Line18(f, outcome) ==
    IF outcome = "raises"
    THEN Step(Throw(f, "RuntimeError"), <<Call("session.interrupt", "", TRUE)>>)
    ELSE Step([f EXCEPT !.pc = "L19"], <<Call("session.interrupt", "", FALSE)>>)

\* variant: the message is passed on without the prefix
UserInputRaw(message) == str(message)

UserInput(message) == "System: " \o str(message)

\* variant: a failure of session.generate_reply is logged where it happens
\* and raised again
Line19LogAndRaise(f, outcome) ==
    IF outcome = "raises"
    THEN Step(Throw(f, "RuntimeError"),
              <<Call("session.generate_reply", UserInput(f.message), TRUE),
                Call("logger.error", "Error processing data: RuntimeError", FALSE)>>)
    ELSE Step([f EXCEPT !.pc = "done"],
              <<Call("session.generate_reply", UserInput(f.message), FALSE)>>)

\* session.generate_reply(user_input=f"System: {message}")
Line19(f, outcome) ==
    IF outcome = "raises"
    THEN Step(Throw(f, "RuntimeError"),
              <<Call("session.generate_reply", UserInput(f.message), TRUE)>>)
    ELSE Step([f EXCEPT !.pc = "done"],
              <<Call("session.generate_reply", UserInput(f.message), FALSE)>>)

\* variant: except ValueError as e:
CatchesValueError(cls) == "ValueError" \in Bases[cls]

\* except Exception as e:
Catches(cls) == "Exception" \in Bases[cls]

\* logger.error(f"Error processing data: {e}"); an exception the clause
\* does not catch leaves the callback
Line20(f) ==
    IF Catches(f.exc)
    THEN Step([f EXCEPT !.pc = "done"],
              <<Call("logger.error", "Error processing data: " \o f.exc, FALSE)>>)
    ELSE Step([f EXCEPT !.pc = "raised"], <<>>)

Finished(p) == p \in {"done", "raised"}

SessionOutcomes == {"returns", "raises"}

(***************************************************************************)
(* State                                                                   *)
(***************************************************************************)
VARIABLES
    pc,         \* pc[i]: the line invocation i is at, "idle" before delivery
    data,       \* data[i]: data_packet.data of invocation i
    payload,    \* payload[i]: the local payload
    message,    \* message[c]: the local message, one cell per invocation
    exc,        \* exc[i]: the exception in flight or caught
    history     \* the calls received by the logger and the session, in order

vars == <<pc, data, payload, message, exc, history>>

Invocations == 1..MaxInvocations

\* variant: message is a global, one cell for all invocations
MessageCellGlobal(i) == 1

\* message is a local of on_data_received: each invocation has its own cell
MessageCell(i) == i

Frame(i) ==
    [pc |-> pc[i], data |-> data[i], payload |-> payload[i],
     message |-> message[MessageCell(i)], exc |-> exc[i]]

Tag(i, out) == [j \in 1..Len(out) |-> [inv |-> i] @@ out[j]]

Store(i, r) ==
    /\ pc' = [pc EXCEPT ![i] = r.f.pc]
    /\ payload' = [payload EXCEPT ![i] = r.f.payload]
    /\ message' = [message EXCEPT ![MessageCell(i)] = r.f.message]
    /\ exc' = [exc EXCEPT ![i] = r.f.exc]
    /\ history' = history \o Tag(i, r.out)
    /\ UNCHANGED data

Init ==
    /\ pc = [i \in Invocations |-> "idle"]
    /\ data = [i \in Invocations |-> <<>>]
    /\ payload = [i \in Invocations |-> Unbound]
    /\ message = [i \in Invocations |-> Unbound]
    /\ exc = [i \in Invocations |-> NoException]
    /\ history = <<>>

\* variant: a packet equal to an earlier one is dropped
DeliverDedup(i, packet) ==
    /\ pc[i] = "idle"
    /\ \A j \in Invocations : j < i => pc[j] # "idle"
    /\ pc' = [pc EXCEPT ![i] = IF \E j \in Invocations : j < i /\ data[j] = packet
                                THEN "done" ELSE "L13"]
    /\ data' = [data EXCEPT ![i] = packet]
    /\ UNCHANGED <<payload, message, exc, history>>

\* the room emits data_received: invocation i starts on the packet
Deliver(i, packet) ==
    /\ pc[i] = "idle"
    /\ \A j \in Invocations : j < i => pc[j] # "idle"
    /\ pc' = [pc EXCEPT ![i] = "L13"]
    /\ data' = [data EXCEPT ![i] = packet]
    /\ UNCHANGED <<payload, message, exc, history>>

DecodeAndParse(i) == pc[i] = "L13" /\ Store(i, Line13(Frame(i)))
GetMessage(i) == pc[i] = "L14" /\ Store(i, Line14(Frame(i)))
TestMessage(i) == pc[i] = "L16" /\ Store(i, Line16(Frame(i)))
LogInfo(i) == pc[i] = "L17" /\ Store(i, Line17(Frame(i)))
Interrupt(i) == pc[i] = "L18" /\ \E o \in SessionOutcomes : Store(i, Line18(Frame(i), o))
GenerateReply(i) == pc[i] = "L19" /\ \E o \in SessionOutcomes : Store(i, Line19(Frame(i), o))
Except(i) == pc[i] = "L20" /\ Store(i, Line20(Frame(i)))

Handler(i) ==
    \/ DecodeAndParse(i)
    \/ GetMessage(i)
    \/ TestMessage(i)
    \/ LogInfo(i)
    \/ Interrupt(i)
    \/ GenerateReply(i)
    \/ Except(i)

\* one packet, any packet
DeliverOne ==
    /\ pc[1] = "idle"
    /\ \/ \E n \in 0..MaxLen : \E packet \in PacketsOfLen(n) : Deliver(1, packet)
       \/ \E packet \in SamplePackets : Deliver(1, packet)
Next == DeliverOne \/ Handler(1)
Spec == Init /\ [][Next]_vars

\* the dispatcher runs the callbacks one after the other
DeliverSeq ==
    /\ \A j \in Invocations : pc[j] = "idle" \/ Finished(pc[j])
    /\ \E i \in Invocations, packet \in SamplePackets : Deliver(i, packet)
NextSeq == DeliverSeq \/ \E i \in Invocations : Handler(i)
SpecSeq == Init /\ [][NextSeq]_vars

\* the dispatcher runs the callbacks concurrently
DeliverConc == \E i \in Invocations, packet \in ConcurrentPackets : Deliver(i, packet)
NextConc == DeliverConc \/ \E i \in Invocations : Handler(i)
SpecConc == Init /\ [][NextConc]_vars

(***************************************************************************)
(* What one invocation did, and what it does when run alone                *)
(***************************************************************************)
Untag(ev) == [op |-> ev.op, arg |-> ev.arg, raised |-> ev.raised]

\* the calls of invocation i, in order
Trace(i) ==
    LET Mine(ev) == ev.inv = i
        mine == SelectSeq(history, Mine)
    IN  [k \in 1..Len(mine) |-> Untag(mine[k])]

Count(i, op) == Cardinality({k \in 1..Len(history) : history[k].inv = i /\ history[k].op = op})

\* what the session did to invocation i
Outcome(i, op) ==
    IF \E k \in 1..Len(history) :
          history[k].inv = i /\ history[k].op = op /\ history[k].raised
    THEN "raises" ELSE "returns"

RECURSIVE Run(_, _, _)
Run(f, interrupt, reply) ==
    IF Finished(f.pc) THEN <<>>
    ELSE LET r == CASE f.pc = "L13" -> Line13(f)
                    [] f.pc = "L14" -> Line14(f)
                    [] f.pc = "L16" -> Line16(f)
                    [] f.pc = "L17" -> Line17(f)
                    [] f.pc = "L18" -> Line18(f, interrupt)
                    [] f.pc = "L19" -> Line19(f, reply)
                    [] f.pc = "L20" -> Line20(f)
         IN  r.out \o Run(r.f, interrupt, reply)

\* the calls of one invocation on the packet with nothing else running
Alone(packet, interrupt, reply) == Run(NewFrame(packet), interrupt, reply)

(***************************************************************************)
(* Vocabulary of the properties                                            *)
(***************************************************************************)
InfoLog(text) == Call("logger.info", "Received external message: " \o text, FALSE)
InterruptCall == Call("session.interrupt", "", FALSE)
ReplyCall(text) == Call("session.generate_reply", text, FALSE)

\* <<informational logs, error logs, interrupt calls, generate_reply calls>>
Shape(i) ==
    <<Count(i, "logger.info"), Count(i, "logger.error"),
      Count(i, "session.interrupt"), Count(i, "session.generate_reply")>>

SessionRaised(i) ==
    \/ Outcome(i, "session.interrupt") = "raises"
    \/ Outcome(i, "session.generate_reply") = "raises"

\* RFC 3629: 0xFF never occurs, a lead byte wants its continuation byte
IllFormedAt(b, k) ==
    \/ b[k] = "0xFF"
    \/ b[k] = "0xC3" /\ (k = Len(b) \/ b[k + 1] # "0xA9")
    \/ b[k] = "0xA9" /\ (k = 1 \/ b[k - 1] # "0xC3")
ValidUtf8(b) == \A k \in 1..Len(b) : ~IllFormedAt(b, k)

\* RFC 8259: the grammar of a JSON text over the tokens
JsonScalars == StringTokens \cup IntTokens \cup {"true", "false", "null"}

RECURSIVE IsValue(_, _, _)
RECURSIVE IsMembers(_, _, _)
RECURSIVE IsElements(_, _, _)
IsValue(s, i, j) ==
    \/ i = j /\ s[i] \in JsonScalars
    \/ i < j /\ s[i] = "{" /\ s[j] = "}" /\ (j = i + 1 \/ IsMembers(s, i + 1, j - 1))
    \/ i < j /\ s[i] = "[" /\ s[j] = "]" /\ (j = i + 1 \/ IsElements(s, i + 1, j - 1))
IsMembers(s, i, j) ==
    /\ i + 2 <= j
    /\ s[i] \in StringTokens
    /\ s[i + 1] = ":"
    /\ \E k \in (i + 2)..j :
          /\ IsValue(s, i + 2, k)
          /\ k = j \/ (k + 2 <= j /\ s[k + 1] = "," /\ IsMembers(s, k + 2, j))
IsElements(s, i, j) ==
    \E k \in i..j :
       /\ IsValue(s, i, k)
       /\ k = j \/ (k + 2 <= j /\ s[k + 1] = "," /\ IsElements(s, k + 2, j))
IsJsonText(s) == Len(s) >= 1 /\ IsValue(s, 1, Len(s))

\* the packet parses as an object; MessageOf is the value payload.get returns
ParsesAsObject(b) ==
    /\ decode(b).ok
    /\ loads(decode(b).val).ok
    /\ loads(decode(b).val).val.t = "dict"
MessageOf(b) == DictGet(loads(decode(b).val).val.items, "message")

NonEmptyString(v) == v.t = "str" /\ v.s # ""
Falsy(v) ==
    \/ v = None
    \/ v = PyStr("")
    \/ v = PyInt(0)
    \/ v = PyBool(FALSE)
    \/ v = PyList(<<>>)
    \/ v = PyDict(<<>>)

HelloPacket == <<"{", "\"message\"", ":", "\"hi\"", "}">>
HelloTrace == <<InfoLog("hi"), InterruptCall, ReplyCall("System: hi")>>

(***************************************************************************)
(* C1: an invocation on a packet that parses as an object whose "message"  *)
(* is a non-empty string m, with session calls that return, makes exactly  *)
(* the calls logger.info, session.interrupt and                            *)
(* session.generate_reply("System: " + m), in this order, and no           *)
(* logger.error.                                                           *)
(***************************************************************************)
C1_MessageForwarded ==
    \A i \in Invocations :
        (/\ pc[i] = "done"
         /\ ~SessionRaised(i)
         /\ ParsesAsObject(data[i])
         /\ NonEmptyString(MessageOf(data[i])))
        => Trace(i) = <<InfoLog(MessageOf(data[i]).s), InterruptCall,
                        ReplyCall("System: " \o MessageOf(data[i]).s)>>

C1_Witness ==
    /\ pc[1] = "done"
    /\ data[1] = HelloPacket
    /\ Trace(1) = HelloTrace

(***************************************************************************)
(* C2: an invocation on a packet that parses as an object without          *)
(* "message", or with a falsy "message", makes no call at all on the       *)
(* logger or the session.                                                  *)
(***************************************************************************)
C2_AbsentOrEmptyIsSilent ==
    \A i \in Invocations :
        (/\ Finished(pc[i])
         /\ ParsesAsObject(data[i])
         /\ Falsy(MessageOf(data[i])))
        => pc[i] = "done" /\ Trace(i) = <<>>

C2_Witness ==
    /\ pc[1] = "done"
    /\ data[1] = <<"{", "\"message\"", ":", "\"\"", "}">>
    /\ history = <<>>

(***************************************************************************)
(* C3: an invocation on a packet that is not valid UTF-8, or is valid      *)
(* UTF-8 but not a JSON text, returns normally after exactly one           *)
(* logger.error, with no logger.info and no session call.                  *)
(***************************************************************************)
C3_InvalidInputLoggedAndDropped ==
    \A i \in Invocations :
        (/\ Finished(pc[i])
         /\ ~ValidUtf8(data[i]) \/ ~IsJsonText(data[i]))
        => pc[i] = "done" /\ Shape(i) = <<0, 1, 0, 0>>

(***************************************************************************)
(* C4: no exception leaves on_data_received: every invocation that ends    *)
(* has returned normally, an invocation in which something was raised      *)
(* ends with a logger.error, and the invocation that follows a failed one  *)
(* makes exactly the calls it makes when run alone.                        *)
(***************************************************************************)
C4_FailuresSuppressed ==
    \A i \in Invocations :
        /\ pc[i] # "raised"
        /\ (pc[i] = "done" /\ exc[i] # NoException)
           => /\ Trace(i) # <<>>
              /\ Trace(i)[Len(Trace(i))].op = "logger.error"
              /\ Count(i, "logger.error") = 1
        /\ (i > 1 /\ pc[i] = "done" /\ exc[i - 1] # NoException)
           => Trace(i) = Alone(data[i], Outcome(i, "session.interrupt"),
                               Outcome(i, "session.generate_reply"))

C4_Witness ==
    /\ pc[1] = "done"
    /\ exc[1] = "RuntimeError"
    /\ pc[2] = "done"
    /\ data[2] = HelloPacket
    /\ Trace(2) = HelloTrace

(***************************************************************************)
(* C5: two invocations on the same packet with a non-empty "message" m,    *)
(* with session calls that return, each make the calls logger.info,        *)
(* session.interrupt, session.generate_reply("System: " + m): the second   *)
(* is neither suppressed nor altered by the first.                         *)
(***************************************************************************)
C5_RepeatedPacketRepeatsCalls ==
    \A i, j \in Invocations :
        (/\ i < j
         /\ pc[i] = "done"
         /\ pc[j] = "done"
         /\ data[i] = data[j]
         /\ ~SessionRaised(i)
         /\ ~SessionRaised(j)
         /\ ParsesAsObject(data[i])
         /\ NonEmptyString(MessageOf(data[i])))
        => /\ Trace(i) = Trace(j)
           /\ Trace(j) = <<InfoLog(MessageOf(data[j]).s), InterruptCall,
                           ReplyCall("System: " \o MessageOf(data[j]).s)>>

C5_Witness ==
    /\ pc[1] = "done"
    /\ pc[2] = "done"
    /\ data[1] = HelloPacket
    /\ data[2] = HelloPacket
    /\ history = Tag(1, HelloTrace) \o Tag(2, HelloTrace)

(***************************************************************************)
(* C6 as stated: every invocation makes either no session call or the      *)
(* complete pair interrupt, generate_reply, and at most one log entry.     *)
(***************************************************************************)
C6_Original ==
    \A i \in Invocations :
        Finished(pc[i])
        => /\ Count(i, "session.interrupt") = Count(i, "session.generate_reply")
           /\ Count(i, "session.interrupt") <= 1
           /\ Count(i, "logger.info") + Count(i, "logger.error") <= 1

(***************************************************************************)
(* C6 as amended: every invocation makes at most one call of each kind,    *)
(* and generate_reply only after an interrupt that returned.  When no      *)
(* session call raises, the session calls are none or the complete pair    *)
(* and there is at most one log entry.  When a session call raises, the    *)
(* invocation makes both the informational and the error log entry, and    *)
(* the interrupt stands alone exactly when it is the call that raised.     *)
(***************************************************************************)
C6_PairOrFailure ==
    \A i \in Invocations :
        Finished(pc[i])
        => LET info == Count(i, "logger.info")
               error == Count(i, "logger.error")
               interrupts == Count(i, "session.interrupt")
               replies == Count(i, "session.generate_reply")
           IN  /\ info <= 1 /\ error <= 1 /\ interrupts <= 1 /\ replies <= interrupts
               /\ replies = 1 => Outcome(i, "session.interrupt") = "returns"
               /\ ~SessionRaised(i) => interrupts = replies /\ info + error <= 1
               /\ SessionRaised(i)
                  => /\ info = 1 /\ error = 1 /\ interrupts = 1
                     /\ replies = 0 <=> Outcome(i, "session.interrupt") = "raises"

C6_Witness ==
    /\ pc[1] = "done"
    /\ Outcome(1, "session.generate_reply") = "raises"
    /\ Shape(1) = <<1, 1, 1, 1>>

(***************************************************************************)
(* C7 as stated: malformed JSON, wrongly encoded bytes, a missing          *)
(* "message" and a session call that raises all end in the same numbers    *)
(* of log entries of each kind and of session calls.                       *)
(***************************************************************************)
MissingField(i) ==
    /\ payload[i].t = "dict"
    /\ \A k \in 1..Len(payload[i].items) : payload[i].items[k][1] # "message"

C7_Original ==
    \A i, j \in Invocations :
        (/\ pc[i] = "done" /\ (exc[i] # NoException \/ MissingField(i))
         /\ pc[j] = "done" /\ (exc[j] # NoException \/ MissingField(j)))
        => Shape(i) = Shape(j)

(***************************************************************************)
(* C7 as amended: the invocations in which decoding, parsing or the field  *)
(* lookup raises all end in the same outcome, one error log entry and      *)
(* nothing else.  A missing "message" is not a failure: no log entry and   *)
(* no session call.  A session call that raises ends in one informational  *)
(* and one error log entry, one interrupt and at most one generate_reply.  *)
(***************************************************************************)
RaisedBeforeSession == {"UnicodeDecodeError", "JSONDecodeError", "AttributeError"}

C7_FailureOutcomes ==
    \A i, j \in Invocations :
        /\ (/\ Finished(pc[i]) /\ exc[i] \in RaisedBeforeSession
            /\ Finished(pc[j]) /\ exc[j] \in RaisedBeforeSession)
           => Shape(i) = Shape(j) /\ Shape(i) = <<0, 1, 0, 0>>
        /\ (Finished(pc[i]) /\ MissingField(i)) => Shape(i) = <<0, 0, 0, 0>>
        /\ (Finished(pc[i]) /\ exc[i] = "RuntimeError")
           => Shape(i) \in {<<1, 1, 1, 0>>, <<1, 1, 1, 1>>}

C7_Witness ==
    /\ pc[1] = "done" /\ exc[1] = "UnicodeDecodeError"
    /\ pc[2] = "done" /\ exc[2] = "JSONDecodeError"
    /\ Shape(1) = Shape(2)

(***************************************************************************)
(* C8 as stated: whenever decoding and parsing succeed, the payload the    *)
(* field lookup is about to read is a JSON object.                         *)
(***************************************************************************)
C8_Original ==
    \A i \in Invocations : pc[i] = "L14" => payload[i].t = "dict"

(***************************************************************************)
(* C8 as amended: decoding and parsing succeed on any JSON value; the      *)
(* field lookup completes only on an object, so from the test of message   *)
(* on the payload is an object, and on every other payload the lookup      *)
(* raises and the invocation ends with one error log entry and no session  *)
(* call.                                                                   *)
(***************************************************************************)
C8_LookupOnlyOnObject ==
    \A i \in Invocations :
        /\ pc[i] \in {"L16", "L17", "L18", "L19"} => payload[i].t = "dict"
        /\ (Finished(pc[i]) /\ message[i] # Unbound) => payload[i].t = "dict"
        /\ (Finished(pc[i]) /\ payload[i] # Unbound /\ payload[i].t # "dict")
           => /\ pc[i] = "done"
              /\ exc[i] = "AttributeError"
              /\ Shape(i) = <<0, 1, 0, 0>>

C8_Witness ==
    /\ pc[1] = "done"
    /\ payload[1] = PyStr("message")
    /\ Shape(1) = <<0, 1, 0, 0>>

(***************************************************************************)
(* C9: in every invocation the calls come in the order logger.info,        *)
(* session.interrupt, session.generate_reply: generate_reply is called     *)
(* only after an interrupt that returned, and when interrupt raises there  *)
(* is no generate_reply and a logger.error follows the logger.info.        *)
(***************************************************************************)
C9_CallOrder ==
    \A i \in Invocations :
        LET t == Trace(i) IN
        /\ \A k \in 1..Len(t) :
              /\ t[k].op = "session.interrupt"
                 => k = 2 /\ t[1].op = "logger.info"
              /\ t[k].op = "session.generate_reply"
                 => k = 3 /\ t[2].op = "session.interrupt" /\ ~t[2].raised
        /\ (Finished(pc[i]) /\ Outcome(i, "session.interrupt") = "raises")
           => /\ Len(t) = 3
              /\ t[1].op = "logger.info"
              /\ t[2].op = "session.interrupt"
              /\ t[3].op = "logger.error"

C9_Witness ==
    /\ pc[1] = "done"
    /\ Outcome(1, "session.interrupt") = "raises"
    /\ Shape(1) = <<1, 1, 1, 0>>

(***************************************************************************)
(* C10: when the invocations run concurrently, under every interleaving    *)
(* each invocation makes exactly the calls, with the same arguments and    *)
(* in the same order, that it makes when run alone on its packet.          *)
(***************************************************************************)
C10_InvocationsIndependent ==
    \A i \in Invocations :
        Finished(pc[i])
        => Trace(i) = Alone(data[i], Outcome(i, "session.interrupt"),
                            Outcome(i, "session.generate_reply"))

C10_Witness ==
    /\ pc[1] = "done"
    /\ pc[2] = "done"
    /\ data[1] = HelloPacket
    /\ data[2] = HelloPacket
    /\ Len(history) = 6
    /\ history[1].inv = 2
    /\ history[2].inv = 1
    /\ history[3].inv = 2
    /\ history[6].inv = 1
    /\ Trace(1) = HelloTrace
    /\ Trace(2) = HelloTrace

====
